---- MODULE Spec2Model ----
(***************************************************************************)
(* A model of s4cmb/systematics.py: the crosstalk injectors, the kernel    *)
(* algebra (fixspin, rotate_deriv) and the differential-beam projection.   *)
(* Real numbers are exact rationals <<numerator, denominator>>, arrays are *)
(* sequences (index 1 is python's index 0), None is the empty tuple.       *)
(***************************************************************************)
EXTENDS Integers, Sequences, FiniteSets, TLC

VARIABLES
    tod,          \* the caller's source timestreams (tod.map2tod(det) per detector)
    squid_ids,    \* SQUID id of each detector
    bolo_ids,     \* channel index of each detector within its SQUID
    cfg,          \* the caller's configuration: seed, mu, sigma (percent)
    bolo_data,    \* the timestream array handed to the injector
    new_array,    \* the caller's output buffer, or None
    state,        \* the RandomState of the last call: its seed and its position
    call,         \* the last injector call: function, arguments, outcome
    prev,         \* the call before it, once the caller has repeated it
    pc,           \* the caller's position
    K,            \* a kernel: 6 coefficients (d00, d10, d01, d11, d20, d02)
    work,         \* the kernel a chain of fixspin / rotate_deriv calls has reached
    hist,         \* the calls of that chain: <<function, argument>>
    parts,        \* spin string -> fixspin(K, spin), for the strings selected so far
    RK,           \* rotate_deriv(K, theta) for an array theta: [theta, es]
    beamprm,      \* the beam model: what construct_beammap renders for each pair
    pairlist,     \* the detector indices grouped by pair
    waferts,      \* the timestreams of the wafer, two rows per pair
    point_matrix, \* pixel index of each sample of each pair, -1 for none
    beam_orientation,       \* orientation angle of each sample of each pair
    intensity_derivatives,  \* the intensity map and its derivatives (6 maps)
    diffbeam_kernels,       \* the result of get_kernel_coefficients
    out,          \* the buffer handed to diffbeam_map2tod
    dcall,        \* the last projection call: function, input buffer, outcome
    dpc,          \* the position of the caller of the differential-beam functions
    fit,          \* a kernel fit: summap, diffmap, pix_size, and derivs and K once called
    gcfg,         \* the arguments of the gain functions
    gains,        \* the array step_function / linear_function returned
    gains_gen,    \* the gain generator: its RandomState and its gains array
    yielded,      \* what each next(gains_gen) returned, as it was when it returned
    held          \* what the arrays obtained from next(gains_gen) hold now

xvars == <<tod, squid_ids, bolo_ids, cfg, bolo_data, new_array, state, call, prev, pc>>
kvars == <<K, work, hist, parts, RK>>
dvars == <<beamprm, pairlist, waferts, point_matrix, beam_orientation,
           intensity_derivatives, diffbeam_kernels, out, dcall, dpc>>
fvars == <<fit>>
gvars == <<gcfg, gains, gains_gen, yielded, held>>
vars == <<xvars, kvars, dvars, fvars, gvars>>

\* ------------------------------------------------------------------ bounds

MaxBolo == 2        \* at most this many detectors
MaxOps == 2         \* at most this many chained kernel operations
MaxPair == 2        \* at most this many detector pairs on the wafer
MaxNext == 2        \* at most this many next() on a gain generator
MaxTheta == 2       \* at most this many angles in an array theta

\* ------------------------------------------------------- exact arithmetic

None == <<>>

Abs(x) == IF x < 0 THEN -x ELSE x

RECURSIVE GCD(_, _)
GCD(a, b) == IF b = 0 THEN a ELSE GCD(b, a % b)

\* The rational n/d in lowest terms with a positive denominator.
Rat(n, d) ==
    LET g == GCD(Abs(n), Abs(d))
        s == IF d < 0 THEN -1 ELSE 1
    IN  <<(s * n) \div g, (s * d) \div g>>

Int2R(n) == <<n, 1>>
Zero == Int2R(0)
One == Int2R(1)
\* Sums go over the least common denominator and products are reduced
\* crosswise first, so that no intermediate value is larger than needed.
RAdd(a, b) ==
    LET g == GCD(a[2], b[2])
    IN  Rat(a[1] * (b[2] \div g) + b[1] * (a[2] \div g), (a[2] \div g) * b[2])
RNeg(a) == <<-a[1], a[2]>>
RSub(a, b) == RAdd(a, RNeg(b))
RMul(a, b) ==
    LET g == GCD(Abs(a[1]), b[2])
        h == GCD(Abs(b[1]), a[2])
    IN  Rat((a[1] \div g) * (b[1] \div h), (a[2] \div h) * (b[2] \div g))
RDiv(a, b) == RMul(a, Rat(b[2], b[1]))

RECURSIVE IPow(_, _)
IPow(b, e) == IF e = 0 THEN 1 ELSE b * IPow(b, e - 1)

\* An array with its elements computed (a value, not a rule to compute it).
Arr(f) == f \o <<>>

\* Array arithmetic on timestreams (numpy broadcasts a scalar over a row).
VAdd(u, v) == Arr([t \in DOMAIN u |-> RAdd(u[t], v[t])])
VSub(u, v) == Arr([t \in DOMAIN u |-> RSub(u[t], v[t])])
VScale(a, v) == Arr([t \in DOMAIN v |-> RMul(a, v[t])])

\* ------------------------------------------------------- random numbers

\* The k-th standard normal deviate of the stream seeded with `seed`.
StdNormal(seed, k) == Int2R(((seed + 2 * k) % 5) - 2)

\* A generator kept from one call to the next instead of a fresh one.
RandomStateShared(seed) == IF state = None THEN [seed |-> seed, pos |-> 0] ELSE state[1]

\* np.random.RandomState(seed): a fresh generator at the start of its stream.
RandomState(seed) == [seed |-> seed, pos |-> 0]

\* state.normal(mu, sigma, n): n draws from the stream, advancing it.
Normal(st, m, s, n) ==
    [draws |-> [k \in 1..n |-> RAdd(m, RMul(s, StdNormal(st.seed, st.pos + k)))],
     state |-> [st EXCEPT !.pos = st.pos + n]]

\* The user gives percentages.
Unitless(x) == RDiv(Int2R(x), Int2R(100))

\* ------------------------------------------------------- crosstalk: combs

RECURSIVE SquidOrder(_, _, _)
\* The keys of combs in insertion order: each SQUID at its first detector.
SquidOrder(ids, n, k) ==
    IF k > n THEN <<>>
    ELSE LET rest == SquidOrder(ids, n, k + 1)
             here == ids[k]
         IN  <<here>> \o SelectSeq(rest, LAMBDA s : s # here)

\* combs[sq]: the (channel, detector) pairs of SQUID sq, in detector order.
Members(sids, bids, n, sq) ==
    SelectSeq([i \in 1..n |-> <<bids[i], i>>], LAMBDA e : sids[e[2]] = sq)

\* Building combs reads squid_ids[bolo] and bolo_ids[bolo] for every
\* bolo < len(bolo_data): too short a list raises IndexError, a longer one
\* is read only up to len(bolo_data).
CombsStatus(sids, bids, n) ==
    IF Len(sids) < n \/ Len(bids) < n THEN "IndexError" ELSE "ok"

Flatten(ss) ==
    LET RECURSIVE F(_)
        F(k) == IF k > Len(ss) THEN <<>> ELSE ss[k] \o F(k + 1)
    IN  F(1)

\* ------------------------------------------------- crosstalk inside SQUID

\* The loops coupling every pair of different channels, however far apart.
InsideVisitsAnyRadius(sids, bids, n, radius) ==
    LET order == SquidOrder(sids, n, 1)
        perSquid(sq) ==
            LET m == Members(sids, bids, n, sq)
                all == Flatten([a \in 1..Len(m) |->
                          [b \in 1..Len(m) |->
                              <<m[a][2], m[b][2], Abs(m[a][1] - m[b][1])>>]])
            IN  SelectSeq(all, LAMBDA v : v[3] > 0)
    IN  Flatten([q \in 1..Len(order) |-> perSquid(order[q])])

\* The updates of the python loops, in the order they run:
\* <<i, i2, separation_length>> for every tsout[i] += ... tsout[i2].
InsideVisits(sids, bids, n, radius) ==
    LET order == SquidOrder(sids, n, 1)
        perSquid(sq) ==
            LET m == Members(sids, bids, n, sq)
                all == Flatten([a \in 1..Len(m) |->
                          [b \in 1..Len(m) |->
                              <<m[a][2], m[b][2], Abs(m[a][1] - m[b][1])>>]])
            IN  SelectSeq(all, LAMBDA v : v[3] > 0 /\ v[3] <= radius)
    IN  Flatten([q \in 1..Len(order) |-> perSquid(order[q])])

RECURSIVE InsideLoop(_, _, _, _, _)
\* tsout[i] += cross_amp[i2] / separation_length**beta * tsout[i2]
InsideLoop(tsout, visits, k, cross_amp, beta) ==
    IF k > Len(visits) THEN tsout
    ELSE LET i == visits[k][1]
             i2 == visits[k][2]
             w == RDiv(cross_amp[i2], Int2R(IPow(visits[k][3], beta)))
         IN  InsideLoop([tsout EXCEPT ![i] = VAdd(tsout[i], VScale(w, tsout[i2]))],
                        visits, k + 1, cross_amp, beta)

\* ------------------------------------------------- crosstalk SQUID to SQUID

\* The loops without the test sq2 == sq1: every SQUID couples to every SQUID.
SquidToSquidVisitsAll(sids, bids, n) ==
    LET order == SquidOrder(sids, n, 1)
        from(i) ==
            Flatten([q \in 1..Len(order) |->
                LET m2 == Members(sids, bids, n, order[q])
                IN  [b \in 1..Len(m2) |-> <<i, m2[b][2]>>]])
        perSquid(sq1) ==
            LET m == Members(sids, bids, n, sq1)
            IN  Flatten([a \in 1..Len(m) |-> from(m[a][2])])
    IN  Flatten([q \in 1..Len(order) |-> perSquid(order[q])])

\* <<i, i2>> for every tsout[i] += ... tsout[i2], in the order they run.
SquidToSquidVisits(sids, bids, n) ==
    LET order == SquidOrder(sids, n, 1)
        from(i, sq1) ==
            Flatten([q \in 1..Len(order) |->
                IF order[q] = sq1 THEN <<>>
                ELSE LET m2 == Members(sids, bids, n, order[q])
                     IN  [b \in 1..Len(m2) |-> <<i, m2[b][2]>>]])
        perSquid(sq1) ==
            LET m == Members(sids, bids, n, sq1)
            IN  Flatten([a \in 1..Len(m) |-> from(m[a][2], sq1)])
    IN  Flatten([q \in 1..Len(order) |-> perSquid(order[q])])

RECURSIVE SquidToSquidLoop(_, _, _, _, _)
\* tsout[i] += cross_amp[i2] / squid_attenuation * tsout[i2]
SquidToSquidLoop(tsout, visits, k, cross_amp, squid_attenuation) ==
    IF k > Len(visits) THEN tsout
    ELSE LET i == visits[k][1]
             i2 == visits[k][2]
             w == RDiv(cross_amp[i2], Int2R(squid_attenuation))
         IN  SquidToSquidLoop(
                 [tsout EXCEPT ![i] = VAdd(tsout[i], VScale(w, tsout[i2]))],
                 visits, k + 1, cross_amp, squid_attenuation)

\* ------------------------------------------------------ output buffers

\* tsout bound to bolo_data itself instead of a copy: the loops write into
\* the caller's input whatever the mode.
WriteOutAliased(data, buf, tsout) ==
    [bolo_data |-> tsout, new_array |-> IF buf # None THEN <<tsout>> ELSE None]

\* tsout = 0.0 + bolo_data is a new array, so the loops never touch the input;
\* then: if new_array is not None: new_array[:] = tsout, else: bolo_data[:] = tsout
\* (buf is None or <<the caller's buffer>>).
WriteOut(data, buf, tsout) ==
    IF buf # None THEN [bolo_data |-> data, new_array |-> <<tsout>>]
    ELSE [bolo_data |-> tsout, new_array |-> None]

\* ------------------------------------------------------ the two injectors

\* The outcome of inject_crosstalk_inside_SQUID(bolo_data, squid_ids, bolo_ids,
\* mu, sigma, radius, beta, seed, new_array, language='python').
InjectInside(data, sids, bids, m, s, radius, beta, seed, buf, st) ==
    LET n == Len(data)
    IN  IF CombsStatus(sids, bids, n) # "ok"
        THEN [status |-> CombsStatus(sids, bids, n), bolo_data |-> data,
              new_array |-> buf, state |-> st, cross_amp |-> <<>>, tsout |-> <<>>]
        ELSE LET drawn == Normal(RandomState(seed), Unitless(m), Unitless(s), n)
                 tsout == InsideLoop(data, InsideVisits(sids, bids, n, radius), 1,
                                     drawn.draws, beta)
                 w == WriteOut(data, buf, tsout)
             IN  [status |-> "ok", bolo_data |-> w.bolo_data,
                  new_array |-> w.new_array, state |-> <<drawn.state>>,
                  cross_amp |-> drawn.draws, tsout |-> tsout]

\* The outcome of inject_crosstalk_SQUID_to_SQUID(bolo_data, squid_ids,
\* bolo_ids, mu, sigma, squid_attenuation, seed, new_array).
InjectSquidToSquid(data, sids, bids, m, s, squid_attenuation, seed, buf, st) ==
    LET n == Len(data)
    IN  IF CombsStatus(sids, bids, n) # "ok"
        THEN [status |-> CombsStatus(sids, bids, n), bolo_data |-> data,
              new_array |-> buf, state |-> st, cross_amp |-> <<>>, tsout |-> <<>>]
        ELSE LET drawn == Normal(RandomState(seed), Unitless(m), Unitless(s), n)
                 tsout == SquidToSquidLoop(data, SquidToSquidVisits(sids, bids, n), 1,
                                           drawn.draws, squid_attenuation)
                 w == WriteOut(data, buf, tsout)
             IN  [status |-> "ok", bolo_data |-> w.bolo_data,
                  new_array |-> w.new_array, state |-> <<drawn.state>>,
                  cross_amp |-> drawn.draws, tsout |-> tsout]

\* ------------------------------------------------------ angles

\* Angles whose cosine and sine are rational: the quarter turns and the
\* angle of the 3-4-5 triangle, a = atan(4/3), with their negatives.
Angles == {"0", "pi/2", "pi", "-pi/2", "a", "-a"}

\* np.cos(theta)
Cos(theta) ==
    CASE theta = "0" -> One
      [] theta = "pi/2" -> Zero
      [] theta = "pi" -> Int2R(-1)
      [] theta = "-pi/2" -> Zero
      [] theta = "a" -> <<3, 5>>
      [] theta = "-a" -> <<3, 5>>

\* np.sin(theta)
Sin(theta) ==
    CASE theta = "0" -> Zero
      [] theta = "pi/2" -> One
      [] theta = "pi" -> Zero
      [] theta = "-pi/2" -> Int2R(-1)
      [] theta = "a" -> <<4, 5>>
      [] theta = "-a" -> <<-4, 5>>

\* -theta (modulo a full turn)
NegAngle(theta) ==
    CASE theta = "0" -> "0"
      [] theta = "pi/2" -> "-pi/2"
      [] theta = "pi" -> "pi"
      [] theta = "-pi/2" -> "pi/2"
      [] theta = "a" -> "-a"
      [] theta = "-a" -> "a"

\* ------------------------------------------------------ fixspin

\* '0' in spin, for a string given as the sequence of its characters
InStr(ch, spin) == \E i \in DOMAIN spin : spin[i] = ch

Half == <<1, 2>>
Two == Int2R(2)

\* fixspin with spin 2 adding y to e02 as it does to e20.
fixspinSameSign(Kin, spin) ==
    LET x == RMul(RAdd(Kin[5], Kin[6]), Half)
        y == RMul(RSub(Kin[5], Kin[6]), Half)
        s0 == InStr("0", spin)
        s1 == InStr("1", spin)
        s2 == InStr("2", spin)
    IN  <<IF s0 THEN Kin[1] ELSE Zero,
          IF s1 THEN Kin[2] ELSE Zero,
          IF s1 THEN Kin[3] ELSE Zero,
          IF s2 THEN Kin[4] ELSE Zero,
          RAdd(IF s0 THEN x ELSE Zero, IF s2 THEN y ELSE Zero),
          RAdd(IF s0 THEN x ELSE Zero, IF s2 THEN y ELSE Zero)>>

\* fixspin with x = d20, the trace (d20 + d02) * 0.5 forgotten.
fixspinTraceOfFirst(Kin, spin) ==
    LET d00 == Kin[1]  d10 == Kin[2]  d01 == Kin[3]
        d11 == Kin[4]  d20 == Kin[5]  d02 == Kin[6]
        x == d20
        y == RMul(RSub(d20, d02), Half)
        s0 == InStr("0", spin)
        s1 == InStr("1", spin)
        s2 == InStr("2", spin)
        e00 == IF s0 THEN RAdd(Zero, d00) ELSE Zero
        e10 == IF s1 THEN RAdd(Zero, d10) ELSE Zero
        e01 == IF s1 THEN RAdd(Zero, d01) ELSE Zero
        e11 == IF s2 THEN RAdd(Zero, d11) ELSE Zero
        e20 == RAdd(IF s0 THEN RAdd(Zero, x) ELSE Zero, IF s2 THEN y ELSE Zero)
        e02 == RAdd(IF s0 THEN RAdd(Zero, x) ELSE Zero, IF s2 THEN RNeg(y) ELSE Zero)
    IN  <<e00, e10, e01, e11, e20, e02>>

fixspin(Kin, spin) ==
    LET d00 == Kin[1]  d10 == Kin[2]  d01 == Kin[3]
        d11 == Kin[4]  d20 == Kin[5]  d02 == Kin[6]
        x == RMul(RAdd(d20, d02), Half)
        y == RMul(RSub(d20, d02), Half)
        s0 == InStr("0", spin)
        s1 == InStr("1", spin)
        s2 == InStr("2", spin)
        e00 == IF s0 THEN RAdd(Zero, d00) ELSE Zero
        e10 == IF s1 THEN RAdd(Zero, d10) ELSE Zero
        e01 == IF s1 THEN RAdd(Zero, d01) ELSE Zero
        e11 == IF s2 THEN RAdd(Zero, d11) ELSE Zero
        e20 == RAdd(IF s0 THEN RAdd(Zero, x) ELSE Zero, IF s2 THEN y ELSE Zero)
        e02 == RAdd(IF s0 THEN RAdd(Zero, x) ELSE Zero, IF s2 THEN RNeg(y) ELSE Zero)
    IN  <<e00, e10, e01, e11, e20, e02>>

\* ------------------------------------------------------ rotate_deriv

\* rotate_deriv with the cross term of e11 subtracted instead of added.
rotate_derivCrossSign(Kin, theta) ==
    LET d00 == Kin[1]  d10 == Kin[2]  d01 == Kin[3]
        d11 == Kin[4]  d20 == Kin[5]  d02 == Kin[6]
        c == Cos(theta)
        s == Sin(theta)
        cs2d11 == RMul(RMul(RMul(Two, c), s), d11)
    IN  <<d00,
          RSub(RMul(c, d10), RMul(s, d01)),
          RAdd(RMul(s, d10), RMul(c, d01)),
          RSub(RMul(RSub(RMul(c, c), RMul(s, s)), d11),
               RMul(RMul(c, s), RSub(d20, d02))),
          RAdd(RSub(RMul(RMul(c, c), d20), cs2d11), RMul(RMul(s, s), d02)),
          RAdd(RAdd(RMul(RMul(s, s), d20), cs2d11), RMul(RMul(c, c), d02))>>

\* rotate_deriv(K, theta) for one angle theta
rotate_deriv(Kin, theta) ==
    LET d00 == Kin[1]  d10 == Kin[2]  d01 == Kin[3]
        d11 == Kin[4]  d20 == Kin[5]  d02 == Kin[6]
        c == Cos(theta)
        s == Sin(theta)
        cs2d11 == RMul(RMul(RMul(Two, c), s), d11)
        e00 == RMul(One, d00)
        e10 == RSub(RMul(c, d10), RMul(s, d01))
        e01 == RAdd(RMul(s, d10), RMul(c, d01))
        e20 == RAdd(RSub(RMul(RMul(c, c), d20), cs2d11), RMul(RMul(s, s), d02))
        e02 == RAdd(RAdd(RMul(RMul(s, s), d20), cs2d11), RMul(RMul(c, c), d02))
        e11 == RAdd(RMul(RSub(RMul(c, c), RMul(s, s)), d11),
                    RMul(RMul(c, s), RSub(d20, d02)))
    IN  <<e00, e10, e01, e11, e20, e02>>

\* np.cos, np.sin, unary minus and * on arrays
VCos(theta) == Arr([j \in DOMAIN theta |-> Cos(theta[j])])
VSin(theta) == Arr([j \in DOMAIN theta |-> Sin(theta[j])])
VNeg(theta) == Arr([j \in DOMAIN theta |-> NegAngle(theta[j])])
VMul(u, v) == Arr([j \in DOMAIN u |-> RMul(u[j], v[j])])

\* rotate_deriv for an array theta, every angle turned by theta[0].
rotate_deriv_arrayFirstAngle(Kin, theta) ==
    Arr([coeff \in 1..6 |->
        Arr([j \in DOMAIN theta |-> rotate_deriv(Kin, theta[1])[coeff]])])

\* rotate_deriv for an array theta with e00 = np.ones_like(theta), the
\* factor d00 forgotten.
rotate_deriv_arrayUnitE00(Kin, theta) ==
    LET d10 == Kin[2]  d01 == Kin[3]
        d11 == Kin[4]  d20 == Kin[5]  d02 == Kin[6]
        c == VCos(theta)
        s == VSin(theta)
        cc == VMul(c, c)
        ss == VMul(s, s)
        cs == VMul(c, s)
        cs2d11 == VScale(d11, VMul(VScale(Two, c), s))
        e00 == Arr([j \in DOMAIN theta |-> One])
        e10 == VSub(VScale(d10, c), VScale(d01, s))
        e01 == VAdd(VScale(d10, s), VScale(d01, c))
        e20 == VAdd(VSub(VScale(d20, cc), cs2d11), VScale(d02, ss))
        e02 == VAdd(VAdd(VScale(d20, ss), cs2d11), VScale(d02, cc))
        e11 == VAdd(VScale(d11, VSub(cc, ss)), VScale(RSub(d20, d02), cs))
    IN  <<e00, e10, e01, e11, e20, e02>>

\* rotate_deriv(K, theta) for an array theta: c, s and the six e's are arrays
\* of the length of theta
rotate_deriv_array(Kin, theta) ==
    LET d00 == Kin[1]  d10 == Kin[2]  d01 == Kin[3]
        d11 == Kin[4]  d20 == Kin[5]  d02 == Kin[6]
        c == VCos(theta)
        s == VSin(theta)
        cc == VMul(c, c)
        ss == VMul(s, s)
        cs == VMul(c, s)
        cs2d11 == VScale(d11, VMul(VScale(Two, c), s))
        e00 == VScale(d00, Arr([j \in DOMAIN theta |-> One]))
        e10 == VSub(VScale(d10, c), VScale(d01, s))
        e01 == VAdd(VScale(d10, s), VScale(d01, c))
        e20 == VAdd(VSub(VScale(d20, cc), cs2d11), VScale(d02, ss))
        e02 == VAdd(VAdd(VScale(d20, ss), cs2d11), VScale(d02, cc))
        e11 == VAdd(VScale(d11, VSub(cc, ss)), VScale(RSub(d20, d02), cs))
    IN  <<e00, e10, e01, e11, e20, e02>>

\* ------------------------------------------------------ derivatives

\* m[i][j] of a 2d map, 0 outside the grid (convolve2d pads with zeros)
At(m, i, j) ==
    IF i \in DOMAIN m /\ j \in DOMAIN m[1] THEN m[i][j] ELSE Zero

\* xderiv returning v, the raw centred difference, instead of -v.
xderivRaw(m, pix_size) ==
    Arr([i \in DOMAIN m |-> Arr([j \in DOMAIN m[1] |->
        RAdd(RMul(RDiv(One, RMul(Two, pix_size)), At(m, i, j + 1)),
             RMul(RDiv(Int2R(-1), RMul(Two, pix_size)), At(m, i, j - 1)))])])

\* signal.convolve2d(m, [[1, 0, -1]] / (2 pix_size), mode='same'), negated
xderiv(m, pix_size) ==
    Arr([i \in DOMAIN m |-> Arr([j \in DOMAIN m[1] |->
        RNeg(RAdd(RMul(RDiv(One, RMul(Two, pix_size)), At(m, i, j + 1)),
                  RMul(RDiv(Int2R(-1), RMul(Two, pix_size)), At(m, i, j - 1))))])])

\* signal.convolve2d(m, [[1, 0, -1]].T / (2 pix_size), mode='same'), negated
yderiv(m, pix_size) ==
    Arr([i \in DOMAIN m |-> Arr([j \in DOMAIN m[1] |->
        RNeg(RAdd(RMul(RDiv(One, RMul(Two, pix_size)), At(m, i + 1, j)),
                  RMul(RDiv(Int2R(-1), RMul(Two, pix_size)), At(m, i - 1, j))))])])

derivs(m, pix_size) ==
    LET m00 == m
        m10 == xderiv(m, pix_size)
        m01 == yderiv(m, pix_size)
        m11 == yderiv(m10, pix_size)
        m20 == xderiv(m10, pix_size)
        m02 == yderiv(m01, pix_size)
    IN  <<m00, m10, m01, m11, m20, m02>>

\* ------------------------------------------------------ least squares

\* a 2d array flattened row by row (reshape)
Ravel(m) == Flatten(m)

\* np.dot of two vectors (the sum is split in halves)
Dot(u, v) ==
    LET RECURSIVE D(_, _)
        D(lo, hi) ==
            IF lo > hi THEN Zero
            ELSE IF lo = hi THEN RMul(u[lo], v[lo])
            ELSE LET mid == (lo + hi) \div 2
                 IN  RAdd(D(lo, mid), D(mid + 1, hi))
    IN  D(1, Len(u))

\* Gauss-Jordan elimination of the rows of M on its first ncol columns:
\* the reduced row echelon form and the pivot column of each pivot row.
RECURSIVE Reduce(_, _, _, _, _)
Reduce(M, ncol, col, row, pivots) ==
    IF col > ncol \/ row > Len(M) THEN [M |-> M, pivots |-> pivots]
    ELSE LET cand == {r \in row..Len(M) : M[r][col] # Zero}
         IN  IF cand = {} THEN Reduce(M, ncol, col + 1, row, pivots)
             ELSE LET r0 == CHOOSE r \in cand : \A q \in cand : r <= q
                      swapped == [M EXCEPT ![row] = M[r0], ![r0] = M[row]]
                      prow == Arr([j \in DOMAIN swapped[row] |->
                                      RDiv(swapped[row][j], swapped[row][col])])
                      cleared == Arr([r \in DOMAIN swapped |->
                                    IF r = row THEN prow
                                    ELSE Arr([j \in DOMAIN prow |->
                                            RSub(swapped[r][j],
                                                 RMul(swapped[r][col], prow[j]))])])
                  IN  Reduce(cleared, ncol, col + 1, row + 1, Append(pivots, col))

\* The solution of the square system G z = h for an invertible G.
Solve(G, h) ==
    LET n == Len(G)
        red == Reduce(Arr([r \in 1..n |-> Append(G[r], h[r])]), n, 1, 1, <<>>)
    IN  Arr([r \in 1..n |-> red.M[r][n + 1]])

\* np.linalg.lstsq(A, b)[0] for the columns cols of A: the least-squares
\* solution of smallest norm. With G = A^T A and h = A^T b, the solutions
\* of G x = h are a particular one plus the null space of G; the one of
\* smallest norm is orthogonal to the null space.
Lstsq(cols, b) ==
    LET n == Len(cols)
        G == Arr([r \in 1..n |-> Arr([c \in 1..n |-> Dot(cols[r], cols[c])])])
        h == Arr([r \in 1..n |-> Dot(cols[r], b)])
        red == Reduce(Arr([r \in 1..n |-> Append(G[r], h[r])]), n, 1, 1, <<>>)
        piv == red.pivots
        isPivot(c) == \E q \in DOMAIN piv : piv[q] = c
        rowOf(c) == CHOOSE q \in DOMAIN piv : piv[q] = c
        free == SelectSeq(Arr([c \in 1..n |-> c]), LAMBDA c : ~isPivot(c))
        nf == Len(free)
        xp == Arr([c \in 1..n |->
                  IF isPivot(c) THEN red.M[rowOf(c)][n + 1] ELSE Zero])
        \* the null-space vector of each free column
        nul == Arr([f \in 1..nf |-> Arr([c \in 1..n |->
                      IF c = free[f] THEN One
                      ELSE IF isPivot(c) THEN RNeg(red.M[rowOf(c)][free[f]])
                      ELSE Zero])])
        NN == Arr([f \in 1..nf |-> Arr([g \in 1..nf |-> Dot(nul[f], nul[g])])])
        Nx == Arr([f \in 1..nf |-> Dot(nul[f], xp)])
        z == IF nf = 0 THEN <<>> ELSE Solve(NN, Nx)
    IN  Arr([c \in 1..n |->
            RSub(xp[c], Dot(Arr([f \in 1..nf |-> nul[f][c]]), z))])

\* split_deriv fitting the sum beam itself instead of the difference beam.
split_derivOfSum(sumbeam, diffbeam, pix_size) ==
    LET ds == derivs(sumbeam, pix_size)
        A == Arr([k \in 1..6 |-> Ravel(ds[k])])
    IN  Lstsq(A, Ravel(sumbeam))

\* split_deriv(sumbeam, diffbeam, pix_size): the 6 kernel coefficients
split_deriv(sumbeam, diffbeam, pix_size) ==
    LET ds == derivs(sumbeam, pix_size)
        A == Arr([k \in 1..6 |-> Ravel(ds[k])])
        b == Ravel(diffbeam)
    IN  Lstsq(A, b)

\* ------------------------------------------------------ kernel coefficients

\* construct_beammap(beamprm, ct, cb, nx, pix_size) of s4cmb.instrument:
\* <<summap, diffmap>> of the pair of detectors ct and cb, or <<None, None>>
\* when the pair cannot be rendered.
construct_beammap(bm, ct, cb) == bm[<<ct, cb>>]

\* np.array(out) for a list of kernels and Nones. A list that mixes the two
\* is ragged: numpy makes a 1d array of objects of it or, in the builds
\* where ragged says so, raises ValueError.
NpArray(buf, ragged) ==
    IF /\ ragged = "ValueError"
       /\ \E p \in DOMAIN buf : buf[p] = None
       /\ \E p \in DOMAIN buf : buf[p] # None
    THEN [status |-> "ValueError", out |-> None]
    ELSE [status |-> "ok", out |-> <<buf>>]

get_kernel_coefficients(bm, pairs, pix_size, ragged) ==
    LET kernel(p) ==
            LET maps == construct_beammap(bm, pairs[p][1], pairs[p][2])
                summap == maps[1]
                diffmap == maps[2]
            IN  IF summap # None /\ diffmap # None
                THEN split_deriv(summap, diffmap, pix_size)
                ELSE None
    IN  NpArray(Arr([p \in DOMAIN pairs |-> kernel(p)]), ragged)

\* ------------------------------------------------------ diffbeam_map2tod

\* a.shape of a 2d array
Shape(a) == IF Len(a) = 0 THEN <<0>> ELSE <<Len(a), Len(a[1])>>

\* diffbeam_kernels.shape: an array holding a None is a 1d array of objects
KernelShape(k) ==
    IF \E p \in DOMAIN k : k[p] = None THEN <<Len(k)>> ELSE Shape(k)

\* a[i] for a python index i: a negative index counts from the end
PyIndex(a, i) == IF i >= 0 THEN a[i + 1] ELSE a[Len(a) + i + 1]

\* A mask that keeps every sample, the sentinel included.
okpointingAll(i1d) == [t \in DOMAIN i1d |-> TRUE]

\* okpointing = i1d != -1
okpointing(i1d) == [t \in DOMAIN i1d |-> i1d[t] # -1]

\* the positions a boolean mask selects, in order
Positions(mask) ==
    SelectSeq(Arr([t \in DOMAIN mask |-> t]), LAMBDA t : mask[t])

\* a[mask]
Compress(a, mask) ==
    LET pos == Positions(mask) IN Arr([j \in DOMAIN pos |-> a[pos[j]]])

\* row[mask] += vals
MaskedAdd(row, mask, vals) ==
    LET pos == Positions(mask)
    IN  Arr([t \in DOMAIN row |->
            IF mask[t]
            THEN RAdd(row[t], vals[CHOOSE j \in DOMAIN pos : pos[j] = t])
            ELSE row[t]])

\* for coeff in range(len(k)):
\*     out[ipix, okpointing] += intensity_derivatives[coeff, io] * k[coeff]
RECURSIVE AddCoeffs(_, _, _, _, _, _)
AddCoeffs(row, mask, io, k, dI, coeff) ==
    IF coeff > Len(k) THEN row
    ELSE AddCoeffs(
            MaskedAdd(row, mask,
                Arr([j \in DOMAIN io |->
                    RMul(PyIndex(dI[coeff], io[j]), k[coeff][j])])),
            mask, io, k, dI, coeff + 1)

\* One turn of the loop over ipix: the new row ipix of out.
ProjectRow(row, dI, i1d, orientation, kernel) ==
    LET mask == okpointing(i1d)
        io == Compress(i1d, mask)
        theta == Compress(orientation, mask)
        \* k = rotate_deriv(K[ipix], -theta): 6 arrays, one per coefficient
        k == rotate_deriv_array(kernel, VNeg(theta))
    IN  AddCoeffs(row, mask, io, k, dI, 1)

diffbeam_map2tod(buf, dI, pm, bo, kernels) ==
    LET npix == Len(buf)
        nt == Len(buf[1])
        kshape == KernelShape(kernels)
        fail(e) == [status |-> e, out |-> buf]
    IN  IF Shape(pm) # Shape(buf) THEN fail("AssertionError")
        ELSE IF kshape[1] # npix THEN fail("AssertionError")
        ELSE IF Len(kshape) < 2 THEN fail("IndexError")
        ELSE IF Len(dI) # kshape[2] THEN fail("AssertionError")
        ELSE IF Shape(bo) # <<npix, nt>> THEN fail("AssertionError")
        \* d00, d10, d01, d11, d20, d02 = K in rotate_deriv, first turn
        ELSE IF kshape[2] # 6 THEN fail("ValueError")
        ELSE [status |-> "ok",
              out |-> Arr([ipix \in 1..npix |->
                          ProjectRow(buf[ipix], dI, pm[ipix], bo[ipix],
                                     kernels[ipix])])]

\* ------------------------------------------------------ waferts_add_diffbeam

\* K = diffbeam_kernels with K bound to the caller's array itself: what is
\* written into K is written into diffbeam_kernels.
PlusZeroAliased(kernels, written) ==
    [diffbeam_kernels |-> written, K |-> written]

\* K = diffbeam_kernels + 0. is a new array: what the function then writes
\* into K (`written`) leaves the caller's diffbeam_kernels as it was.
PlusZero(kernels, written) ==
    [diffbeam_kernels |-> kernels, K |-> written]

\* K[:, 1] *= -1; K[:, 3] *= -1 without K[:, 0] = 0.
ZeroAndFlipKeepsTemperature(kernels) ==
    Arr([p \in DOMAIN kernels |->
        [kernels[p] EXCEPT ![2] = RMul(@, Int2R(-1)),
                           ![4] = RMul(@, Int2R(-1))]])

\* K[:, 0] = 0; K[:, 1] *= -1; K[:, 3] *= -1
ZeroAndFlip(kernels) ==
    Arr([p \in DOMAIN kernels |->
        [kernels[p] EXCEPT ![1] = Zero,
                           ![2] = RMul(@, Int2R(-1)),
                           ![4] = RMul(@, Int2R(-1))]])

\* The result of the call and the caller's diffbeam_kernels after it.
waferts_add_diffbeam(ts, pm, bo, dI, kernels, pairs, spins) ==
    LET fail(e, k) == [status |-> e, waferts |-> ts, diffbeamleak |-> None,
                       diffbeam_kernels |-> k]
    IN  \* K = kernels + 0. adds 0. to every element
        IF \E p \in DOMAIN kernels : kernels[p] = None
        THEN fail("TypeError", kernels)
        ELSE
        LET flipped == ZeroAndFlip(kernels)
            \* K[ipix] = fixspin(K[ipix], spins)
            Kfix == Arr([p \in DOMAIN flipped |-> fixspin(flipped[p], spins)])
            cp == PlusZero(kernels, Kfix)
            zeros == Arr([p \in 1..(Len(ts) \div 2) |->
                            Arr([t \in DOMAIN ts[1] |-> Zero])])
            r == diffbeam_map2tod(zeros, dI, pm, bo, cp.K)
        IN  IF r.status # "ok" THEN fail(r.status, cp.diffbeam_kernels)
            ELSE [status |-> "ok",
                  diffbeamleak |-> <<r.out>>,
                  diffbeam_kernels |-> cp.diffbeam_kernels,
                  waferts |-> Arr([i \in DOMAIN ts |->
                      IF i % 2 = 1
                      THEN VAdd(ts[i], r.out[(i + 1) \div 2])
                      ELSE VSub(ts[i], r.out[i \div 2])])]

\* ------------------------------------------------------ gain functions

\* np.ones((nrows, nsamples))
Ones(nrows, nsamples) ==
    Arr([d \in 1..nrows |-> Arr([t \in 1..nsamples |-> One])])

\* np.tile(end_points, (2, 1)).T.reshape((2*len(end_points), 1)): each
\* draw twice in a row, one value per detector
Tile(end_points) ==
    Arr([d \in 1..(2 * Len(end_points)) |-> end_points[(d + 1) \div 2]])

\* g[:, lo:hi] = vals for a column vals (one value per row); the slice
\* stops at the end of the rows
AssignColumn(g, lo, hi, vals) ==
    Arr([d \in DOMAIN g |-> Arr([t \in DOMAIN g[d] |->
        IF lo < t /\ t <= hi THEN vals[d] ELSE g[d][t]])])

\* np.interp(x, [x1, x2], [1, end]): linear between the two points, the
\* last value at or beyond the last point
Interp(x, x1, x2, end) ==
    IF x >= x2 THEN end
    ELSE IF x <= x1 THEN One
    ELSE RAdd(One, RMul(RSub(end, One), Rat(x - x1, x2 - x1)))

\* g[:, shift:shift + length] = [np.interp(range(shift, shift + length),
\*     [shift, shift + length - 1], [1, end[0]]) for end in end_points]
AssignRamp(g, shift, length, end_points) ==
    Arr([d \in DOMAIN g |-> Arr([t \in DOMAIN g[d] |->
        IF shift < t /\ t <= shift + length
        THEN Interp(t - 1, shift, shift + length - 1, end_points[d])
        ELSE g[d][t]])])

\* gains[1] = 2 - gains[1]
FlipSecond(g) ==
    [g EXCEPT ![2] = Arr([t \in DOMAIN g[2] |-> RSub(Two, g[2][t])])]

\* The loop of step_function over pos, from pos on.
RECURSIVE StepLoop(_, _, _, _, _, _, _, _)
StepLoop(g, st, pos, nbolos, nsamples, mean, std, c) ==
    IF pos >= c.nbreaks THEN [gains |-> g, state |-> st]
    ELSE LET length == nsamples \div c.nbreaks
             sublength == nsamples \div (2 * c.nbreaks)
             drawn == Normal(st, mean, std, nbolos \div 2)
             end_points == Tile(drawn.draws)
             shift == pos * length
         IN  IF pos * length < nsamples
             THEN LET assigned == AssignColumn(g, shift + sublength,
                                               shift + 2 * sublength, end_points)
                      flipped == IF c.sign = "opposite"
                                 THEN FlipSecond(assigned) ELSE assigned
                  IN  StepLoop(flipped, drawn.state, pos + 1, nbolos, nsamples,
                               mean, std, c)
             ELSE StepLoop(g, drawn.state, pos + 1, nbolos, nsamples,
                           mean, std, c)

\* step_function(nbolos, nsamples, mean, std, nbreaks, sign, seed)
step_function(nbolos, nsamples, mean, std, nbreaks, sign, seed) ==
    StepLoop(Ones(nbolos, nsamples), RandomState(seed), 0, nbolos, nsamples,
             mean, std, [nbreaks |-> nbreaks, sign |-> sign]).gains

\* The loop over pos of step_function_gen and of the two linear functions:
\* kind says what is assigned, npair how many draws a turn takes.
RECURSIVE BreakLoop(_, _, _, _, _, _, _, _)
BreakLoop(g, st, pos, npair, nsamples, mean, std, c) ==
    IF pos >= c.nbreaks THEN [gains |-> g, state |-> st]
    ELSE LET length == nsamples \div c.nbreaks
             sublength == nsamples \div (2 * c.nbreaks)
             drawn == Normal(st, mean, std, npair)
             end_points == Tile(drawn.draws)
             shift == pos * length
             assigned ==
                 IF ~(pos * length < nsamples) THEN g
                 ELSE IF c.kind = "step"
                 THEN AssignColumn(g, shift + sublength, shift + 2 * sublength,
                                   end_points)
                 ELSE AssignRamp(g, shift, length, end_points)
         IN  BreakLoop(assigned, drawn.state, pos + 1, npair, nsamples,
                       mean, std, c)

\* linear_function(nbolos, nsamples, mean, std, nbreaks, sign, seed)
linear_function(nbolos, nsamples, mean, std, nbreaks, sign, seed) ==
    LET r == BreakLoop(Ones(nbolos, nsamples), RandomState(seed), 0,
                       nbolos \div 2, nsamples, mean, std,
                       [nbreaks |-> nbreaks, kind |-> "linear"])
    IN  IF sign = "opposite" THEN FlipSecond(r.gains) ELSE r.gains

\* step_function_gen / linear_function_gen up to the while loop: the
\* generator's RandomState and its gains array
NewGen(nsamples, seed) ==
    [state |-> RandomState(seed), gains |-> Ones(2, nsamples)]

\* One turn of the while loop of step_function_gen (kind "step") or
\* linear_function_gen (kind "linear"), up to its yield: the generator
\* after it; what it yields is its gains array.
NextOfGen(gen, kind, nsamples, mean, std, nbreaks, sign) ==
    LET r == BreakLoop(gen.gains, gen.state, 0, 1, nsamples, mean, std,
                       [nbreaks |-> nbreaks, kind |-> kind])
    IN  [state |-> r.state,
         gains |-> IF sign = "opposite" THEN FlipSecond(r.gains) ELSE r.gains]

\* ------------------------------------------------------ inputs

Squids == {"A", "B"}
Channels == {0, 1, 2}
Samples == {One, Int2R(2)}
Timestreams == {<<v>> : v \in Samples}
Seeds == {1, 2}
Mus == {-3, 2}
Sigmas == {1}
Radii == {0, 1, 2}
Betas == {1, 2}
Attenuations == {2, 100}

\* np.zeros_like(d)
ZerosLike(d) == [i \in DOMAIN d |-> [t \in DOMAIN d[i] |-> Zero]]

\* ------------------------------------------------------ crosstalk session

\* The caller holds a TOD, a focal-plane layout and a configuration; the id
\* lists are as long as the TOD plus a slack (0 for a well-formed layout).
\* SQUID ids are labels: the first detector's SQUID is called "A".
InitCrosstalk(slacks) ==
    \E n \in 1..MaxBolo :
        /\ tod \in [1..n -> Timestreams]
        /\ \E a \in slacks, b \in slacks :
              /\ squid_ids \in [1..(n + a) -> Squids]
              /\ bolo_ids \in [1..(n + b) -> Channels]
              /\ n + a > 0 => squid_ids[1] = "A"
        /\ cfg \in [seed : Seeds, mu : Mus, sigma : Sigmas]
        /\ bolo_data = None
        /\ new_array = None
        /\ state = None
        /\ call = None
        /\ prev = None
        /\ pc = "start"

\* d = np.array([tod.map2tod(det) ...]) and, when the caller wants the
\* input kept, d_new = np.zeros_like(d).
Load(keep) ==
    /\ pc = "start"
    /\ bolo_data' = tod
    /\ new_array' = IF keep THEN <<ZerosLike(tod)>> ELSE None
    /\ pc' = "loaded"
    /\ UNCHANGED <<tod, squid_ids, bolo_ids, cfg, state, call, prev>>
    /\ UNCHANGED <<kvars, dvars, fvars, gvars>>

\* The caller's record of a call and the buffers and generator it leaves.
Record(fn, args, input, keep, r, position) ==
    /\ bolo_data' = r.bolo_data
    /\ new_array' = r.new_array
    /\ state' = r.state
    /\ call' = <<[fn |-> fn, args |-> args, input |-> input, keep |-> keep,
                  status |-> r.status, cross_amp |-> r.cross_amp,
                  tsout |-> r.tsout,
                  written |-> IF keep THEN r.new_array[1] ELSE r.bolo_data]>>
    /\ pc' = position
    /\ UNCHANGED <<tod, squid_ids, bolo_ids, cfg>>
    /\ UNCHANGED <<kvars, dvars, fvars, gvars>>

Inject(fn, args, data, buf) ==
    IF fn = "inside"
    THEN InjectInside(data, squid_ids, bolo_ids, cfg.mu, cfg.sigma,
                      args[1], args[2], cfg.seed, buf, state)
    ELSE InjectSquidToSquid(data, squid_ids, bolo_ids, cfg.mu, cfg.sigma,
                            args[1], cfg.seed, buf, state)

CallInside ==
    /\ pc = "loaded"
    /\ \E radius \in Radii, beta \in Betas :
          Record("inside", <<radius, beta>>, bolo_data, new_array # None,
                 Inject("inside", <<radius, beta>>, bolo_data, new_array), "done")
    /\ UNCHANGED prev

CallSquidToSquid ==
    /\ pc = "loaded"
    /\ \E att \in Attenuations :
          Record("squid_to_squid", <<att>>, bolo_data, new_array # None,
                 Inject("squid_to_squid", <<att>>, bolo_data, new_array), "done")
    /\ UNCHANGED prev

\* The caller loads the timestreams afresh and repeats its last call, with
\* or without an output buffer (the second half of the doctests).
Repeat(keep) ==
    /\ pc = "done"
    /\ LET buf == IF keep THEN <<ZerosLike(tod)>> ELSE None
       IN  Record(call[1].fn, call[1].args, tod, keep,
                  Inject(call[1].fn, call[1].args, tod, buf), "repeated")
    /\ prev' = call

LoadInPlace == Load(FALSE)
LoadKeep == Load(TRUE)
RepeatInPlace == Repeat(FALSE)
RepeatKeep == Repeat(TRUE)

\* ------------------------------------------------------ kernel session

Kernel(a, b, c, d, e, f) == <<Int2R(a), Int2R(b), Int2R(c), Int2R(d), Int2R(e), Int2R(f)>>
ZeroKernel == Kernel(0, 0, 0, 0, 0, 0)

\* fixspin and rotate_deriv are linear in K: the six unit kernels, two
\* kernels with all coefficients different, one with fractions, and zero.
KernelInputs ==
    {Kernel(1, 0, 0, 0, 0, 0), Kernel(0, 1, 0, 0, 0, 0), Kernel(0, 0, 1, 0, 0, 0),
     Kernel(0, 0, 0, 1, 0, 0), Kernel(0, 0, 0, 0, 1, 0), Kernel(0, 0, 0, 0, 0, 1),
     Kernel(1, 2, 3, 4, 5, 6), Kernel(2, -1, 3, 1, -2, 7),
     <<Half, <<-1, 3>>, Two, <<3, 4>>, <<1, 3>>, <<-5, 2>>>>, ZeroKernel}

\* Spin strings: every subset of '0', '1', '2', and '3', which selects none.
SpinStrings ==
    {<<>>, <<"0">>, <<"1">>, <<"2">>, <<"0", "1">>, <<"0", "2">>, <<"1", "2">>,
     <<"0", "1", "2">>, <<"3">>}

CrosstalkIdle ==
    /\ tod = None /\ squid_ids = None /\ bolo_ids = None /\ cfg = None
    /\ bolo_data = None /\ new_array = None /\ state = None
    /\ call = None /\ prev = None /\ pc = "idle"

\* Arrays of angles handed to rotate_deriv.
AngleArrays ==
    UNION {[1..n -> Angles] : n \in 0..MaxTheta}

KernelIdle ==
    K = None /\ work = None /\ hist = None /\ parts = None /\ RK = None

InitKernel ==
    /\ K \in KernelInputs
    /\ work = K
    /\ hist = <<>>
    /\ parts = [s \in {} |-> None]
    /\ RK = None

\* The caller rotates its working kernel.
RotateDeriv ==
    /\ Len(hist) < MaxOps
    /\ DOMAIN parts = {}
    /\ RK = None
    /\ \E theta \in Angles :
          /\ work' = rotate_deriv(work, theta)
          /\ hist' = Append(hist, <<"rotate_deriv", theta>>)
    /\ UNCHANGED <<K, parts, RK>>
    /\ UNCHANGED <<xvars, dvars, fvars, gvars>>

\* The caller spin-selects its working kernel.
FixSpin ==
    /\ Len(hist) < MaxOps
    /\ DOMAIN parts = {}
    /\ RK = None
    /\ \E spin \in SpinStrings :
          /\ work' = fixspin(work, spin)
          /\ hist' = Append(hist, <<"fixspin", spin>>)
    /\ UNCHANGED <<K, parts, RK>>
    /\ UNCHANGED <<xvars, dvars, fvars, gvars>>

\* The caller splits K into its spin parts, one fixspin(K, spin) at a time.
SelectSpin ==
    /\ hist = <<>>
    /\ RK = None
    /\ \E spin \in SpinStrings \ DOMAIN parts :
          parts' = [s \in DOMAIN parts \cup {spin} |->
                       IF s = spin THEN fixspin(K, spin) ELSE parts[s]]
    /\ UNCHANGED <<K, work, hist, RK>>
    /\ UNCHANGED <<xvars, dvars, fvars, gvars>>

\* The caller rotates K by an array of angles, as the projection does.
RotateDerivArray ==
    /\ hist = <<>>
    /\ DOMAIN parts = {}
    /\ RK = None
    /\ \E theta \in AngleArrays :
          RK' = [theta |-> theta, es |-> rotate_deriv_array(K, theta)]
    /\ UNCHANGED <<K, work, hist, parts>>
    /\ UNCHANGED <<xvars, dvars, fvars, gvars>>

\* ------------------------------------------------------ differential-beam session

\* pix_size of the beam maps
PixSize == Half

\* A sum beam: one bright pixel in the middle of a 5 x 5 grid, which the
\* second derivatives just fit in.
SumBeam ==
    Arr([i \in 1..5 |-> Arr([j \in 1..5 |->
        IF i = 3 /\ j = 3 THEN One ELSE Zero])])

\* diffbeam = K conv sumbeam: the difference beam whose expansion on the
\* derivatives of sumbeam has the coefficients co.
Leaky(sumbeam, co) ==
    LET ds == derivs(sumbeam, PixSize)
    IN  Arr([i \in DOMAIN sumbeam |-> Arr([j \in DOMAIN sumbeam[1] |->
            Dot(Arr([k \in 1..6 |-> ds[k][i][j]]), co)])])

\* What construct_beammap gives for a pair: nothing, a matched pair
\* (no difference), a pair with differential pointing, a pair with all six
\* terms.
BeamMaps ==
    {<<None, None>>,
     <<SumBeam, Leaky(SumBeam, ZeroKernel)>>,
     <<SumBeam, Leaky(SumBeam, Kernel(0, 2, -3, 0, 0, 0))>>,
     <<SumBeam, Leaky(SumBeam, Kernel(1, 2, 3, 4, 5, 6))>>}

\* pairlist: the usual [[0, 1], [2, 3], ...] or, for two pairs and more,
\* each top detector paired with the one np places further.
PairLists(np) ==
    {Arr([p \in 1..np |-> <<2 * (p - 1), 2 * (p - 1) + 1>>])}
    \cup (IF np < 2 THEN {} ELSE {Arr([p \in 1..np |-> <<p - 1, p - 1 + np>>])})

\* One pair's scan: its pointing (pixel of each sample, -1 when the sample
\* sees no pixel) and its orientation at each sample.
Scans ==
    {[point |-> <<0, 1>>, orientation |-> <<"0", "pi/2">>],
     [point |-> <<0, 1>>, orientation |-> <<"a", "-a">>],
     [point |-> <<-1, 1>>, orientation |-> <<"a", "-a">>],
     [point |-> <<-1, -1>>, orientation |-> <<"pi", "-pi/2">>]}

\* The six maps (I, dI/dt, dI/dp, d2I/dpdt, d2I/dt2, d2I/d2p) of a sky of
\* two pixels.
SkyDerivatives ==
    <<<<Int2R(1), Int2R(2)>>, <<Int2R(3), Int2R(-1)>>, <<Int2R(-2), Int2R(1)>>,
      <<Int2R(1), Int2R(1)>>, <<Int2R(2), Int2R(-3)>>, <<Int2R(-1), Int2R(2)>>>>

\* d = np.array([tod.map2tod(det) for det in range(2 * tod.npair)])
WaferTs(np) == Arr([i \in 1..(2 * np) |-> <<Int2R(i), Int2R(-i)>>])

\* The buffers a caller hands to diffbeam_map2tod: zeros, or a signal.
OutBuffers(np) ==
    {Arr([p \in 1..np |-> <<Zero, Zero>>]), Arr([p \in 1..np |-> <<Int2R(p), Half>>])}

Spins == {<<"0", "1", "2">>, <<"1">>, <<"0", "2">>, <<>>}

\* by how many rows or columns an array differs from what the call expects
ShapeSlacks == {-1, 0, 1}

\* np.array builds: what a ragged list becomes
NumpyBuilds == {"object", "ValueError"}

DiffbeamIdle ==
    /\ beamprm = None /\ pairlist = None /\ waferts = None
    /\ point_matrix = None /\ beam_orientation = None
    /\ intensity_derivatives = None /\ diffbeam_kernels = None
    /\ out = None /\ dcall = None /\ dpc = "idle"

\* The instrument (its beam model and pairs) and the timestreams d.
InitDiffbeam ==
    \E np \in 1..MaxPair :
        /\ pairlist \in PairLists(np)
        /\ beamprm \in [{pairlist[p] : p \in 1..np} -> BeamMaps]
        /\ waferts = WaferTs(np)
        /\ point_matrix = None
        /\ beam_orientation = None
        /\ intensity_derivatives = None
        /\ diffbeam_kernels = None
        /\ out = None
        /\ dcall = None
        /\ dpc = "start"

\* K = get_kernel_coefficients(inst.beam_model, pairlist, ...)
GetKernelCoefficients ==
    /\ dpc = "start"
    /\ \E ragged \in NumpyBuilds :
          \E r \in {get_kernel_coefficients(beamprm, pairlist, PixSize, ragged)} :
              /\ diffbeam_kernels' = r.out
              /\ dpc' = IF r.status = "ok" THEN "fitted" ELSE r.status
    /\ UNCHANGED <<beamprm, pairlist, waferts, point_matrix, beam_orientation,
                   intensity_derivatives, out, dcall>>
    /\ UNCHANGED <<xvars, kvars, fvars, gvars>>

\* intensity_derivatives = np.array([sky_in.I, ...]), beam_orientation =
\* np.array([...]) and the pointing tod.point_matrix of the scan
GetOrientation ==
    /\ dpc = "fitted"
    /\ \E scan \in [1..Len(pairlist) -> Scans] :
          /\ point_matrix' = Arr([p \in DOMAIN scan |-> scan[p].point])
          /\ beam_orientation' = Arr([p \in DOMAIN scan |-> scan[p].orientation])
    /\ intensity_derivatives' = SkyDerivatives
    /\ dpc' = "pointed"
    /\ UNCHANGED <<beamprm, pairlist, waferts, diffbeam_kernels, out, dcall>>
    /\ UNCHANGED <<xvars, kvars, fvars, gvars>>

\* The arrays the caller hands to a projection besides its output buffer,
\* as they are when the call is made.
CallArgs ==
    [diffbeam_kernels |-> diffbeam_kernels[1],
     intensity_derivatives |-> intensity_derivatives,
     point_matrix |-> point_matrix,
     beam_orientation |-> beam_orientation]

\* diffbeam_map2tod(out, intensity_derivatives, point_matrix,
\*                  beam_orientation, K) on a buffer of the caller
DiffbeamMap2tod ==
    /\ dpc = "pointed"
    /\ \E buf \in OutBuffers(Len(waferts) \div 2) :
          \E r \in {diffbeam_map2tod(buf, intensity_derivatives, point_matrix,
                                     beam_orientation, diffbeam_kernels[1])} :
              /\ out' = <<r.out>>
              /\ dcall' = <<[fn |-> "diffbeam_map2tod", status |-> r.status,
                             before |-> buf, spins |-> None,
                             diffbeamleak |-> None, args |-> CallArgs]>>
    /\ dpc' = "done"
    /\ UNCHANGED <<beamprm, pairlist, waferts, point_matrix, beam_orientation,
                   intensity_derivatives, diffbeam_kernels>>
    /\ UNCHANGED <<xvars, kvars, fvars, gvars>>

\* waferts_add_diffbeam(d, tod.point_matrix, beam_orientation,
\*                      intensity_derivatives, K, pairlist, spins=...)
WafertsAddDiffbeam ==
    /\ dpc = "pointed"
    /\ \E spins \in Spins :
          \E r \in {waferts_add_diffbeam(waferts, point_matrix, beam_orientation,
                                         intensity_derivatives,
                                         diffbeam_kernels[1], pairlist, spins)} :
              /\ waferts' = r.waferts
              /\ diffbeam_kernels' = <<r.diffbeam_kernels>>
              /\ dcall' = <<[fn |-> "waferts_add_diffbeam", status |-> r.status,
                             before |-> waferts, spins |-> spins,
                             diffbeamleak |-> r.diffbeamleak,
                             args |-> CallArgs]>>
    /\ dpc' = "done"
    /\ UNCHANGED <<beamprm, pairlist, point_matrix, beam_orientation,
                   intensity_derivatives, out>>
    /\ UNCHANGED <<xvars, kvars, fvars, gvars>>

\* ------------------------------------------------------ kernel-fit session

\* Sum-beam maps: one pixel, 2 x 2, a 2 x 3 and a 3 x 3 without symmetry, a
\* bright pixel on 3 x 3 (its second derivatives do not fit in the grid)
\* and on 5 x 5, and an empty map.
SumBeams ==
    {<<<<One>>>>,
     <<<<One, Two>>, <<Two, One>>>>,
     <<<<Int2R(1), Int2R(2), Int2R(3)>>, <<Int2R(4), Int2R(5), Int2R(6)>>>>,
     <<<<Int2R(1), Int2R(2), Zero>>, <<Zero, Int2R(3), Int2R(1)>>,
       <<Int2R(2), Zero, Int2R(1)>>>>,
     Arr([i \in 1..3 |-> Arr([j \in 1..3 |-> IF i = 2 /\ j = 2 THEN One ELSE Zero])]),
     SumBeam,
     <<<<Zero, Zero>>, <<Zero, Zero>>>>}

\* np.zeros_like(m)
ZeroMap(m) == Arr([i \in DOMAIN m |-> Arr([j \in DOMAIN m[1] |-> Zero])])

\* Difference beams for a sum beam: the same map, no difference, the map
\* with one pixel changed, and expansions on the sum beam's derivatives.
DiffBeams(summap) ==
    {summap, ZeroMap(summap), [summap EXCEPT ![1][1] = RAdd(@, One)]}
    \cup {Leaky(summap, co) :
            co \in {Kernel(0, 2, -3, 0, 0, 0), Kernel(1, 2, 3, 4, 5, 6),
                    Kernel(0, 0, 0, 1, -1, 1)}}

PixSizes == {Half, One}

FitIdle == fit = None

\* summap, diffmap = construct_beammap(...) with a pix_size
InitFit ==
    \E summap \in SumBeams : \E diffmap \in DiffBeams(summap) :
    \E pix_size \in PixSizes :
        fit = [summap |-> summap, diffmap |-> diffmap, pix_size |-> pix_size,
               derivs |-> None, K |-> None]

\* m00, m10, m01, m11, m20, m02 = derivs(m, pix_size)
Derivs ==
    /\ fit # None
    /\ fit.derivs = None
    /\ fit' = [fit EXCEPT !.derivs = <<derivs(fit.summap, fit.pix_size)>>]
    /\ UNCHANGED <<xvars, kvars, dvars, gvars>>

\* K = split_deriv(summap, diffmap, pix_size)
SplitDeriv ==
    /\ fit # None
    /\ fit.K = None
    /\ LET fitted(f) == split_deriv(f.summap, f.diffmap, f.pix_size)
       IN  fit' = [fit EXCEPT !.K = <<fitted(fit)>>]
    /\ UNCHANGED <<xvars, kvars, dvars, gvars>>

\* ------------------------------------------------------ gain session

\* nsamples and nbreaks of a call: every break at least two samples long
Breaks == {<<4, 1>>, <<5, 1>>, <<4, 2>>, <<5, 2>>, <<6, 3>>}

\* mean and std of the drifts (the defaults)
GainMean == One
GainStd == Rat(1, 20)

GainIdle ==
    /\ gcfg = None /\ gains = None /\ gains_gen = None
    /\ yielded = None /\ held = None

\* The arguments a caller gives to the materialised function and to its
\* generator.
InitGain ==
    /\ \E b \in Breaks :
          gcfg \in [kind : {"step", "linear"}, nbolos : {2, 4},
                    nsamples : {b[1]}, nbreaks : {b[2]},
                    sign : {"same", "opposite"}, seed : Seeds]
    /\ gains = None
    /\ gains_gen = None
    /\ yielded = <<>>
    /\ held = <<>>

\* gains = step_function(nbolos, nsamples, nbreaks=..., sign=...)
StepFunction ==
    /\ gcfg # None /\ gcfg.kind = "step" /\ gains = None
    /\ gains' = <<step_function(gcfg.nbolos, gcfg.nsamples, GainMean, GainStd,
                                gcfg.nbreaks, gcfg.sign, gcfg.seed)>>
    /\ UNCHANGED <<gcfg, gains_gen, yielded, held>>
    /\ UNCHANGED <<xvars, kvars, dvars, fvars>>

\* gains = linear_function(nbolos, nsamples, nbreaks=..., sign=...)
LinearFunction ==
    /\ gcfg # None /\ gcfg.kind = "linear" /\ gains = None
    /\ gains' = <<linear_function(gcfg.nbolos, gcfg.nsamples, GainMean, GainStd,
                                  gcfg.nbreaks, gcfg.sign, gcfg.seed)>>
    /\ UNCHANGED <<gcfg, gains_gen, yielded, held>>
    /\ UNCHANGED <<xvars, kvars, dvars, fvars>>

\* gains_gen = step_function_gen(nsamples, ...) or linear_function_gen(...)
MakeGen ==
    /\ gcfg # None /\ gains_gen = None
    /\ gains_gen' = <<NewGen(gcfg.nsamples, gcfg.seed)>>
    /\ UNCHANGED <<gcfg, gains, yielded, held>>
    /\ UNCHANGED <<xvars, kvars, dvars, fvars>>

\* g = next(gains_gen): the generator yields its own gains array, so every
\* array obtained before is that array too.
NextGains ==
    /\ gains_gen # None
    /\ Len(yielded) < MaxNext
    /\ \E gen \in {NextOfGen(gains_gen[1], gcfg.kind, gcfg.nsamples, GainMean,
                             GainStd, gcfg.nbreaks, gcfg.sign)} :
          /\ gains_gen' = <<gen>>
          /\ yielded' = Append(yielded, gen.gains)
          /\ held' = Arr([k \in 1..(Len(yielded) + 1) |-> gen.gains])
    /\ UNCHANGED <<gcfg, gains>>
    /\ UNCHANGED <<xvars, kvars, dvars, fvars>>

\* ------------------------------------------------------ specifications

Init == InitCrosstalk({0}) /\ KernelIdle /\ DiffbeamIdle /\ FitIdle /\ GainIdle
Next ==
    \/ LoadInPlace \/ LoadKeep
    \/ CallInside \/ CallSquidToSquid
    \/ RepeatInPlace \/ RepeatKeep
Spec == Init /\ [][Next]_vars

InitK == CrosstalkIdle /\ InitKernel /\ DiffbeamIdle /\ FitIdle /\ GainIdle
NextK == RotateDeriv \/ FixSpin \/ SelectSpin \/ RotateDerivArray
SpecKernel == InitK /\ [][NextK]_vars

\* A caller about to project kernels it holds, with arrays whose shapes
\* differ from the buffer's by the given numbers of rows and columns; the
\* kernels have kc coefficients and the sky nd maps.
InitShapes ==
    \E np \in 1..MaxPair :
    \E pmr \in ShapeSlacks, pmc \in ShapeSlacks, bor \in ShapeSlacks,
       boc \in ShapeSlacks, kr \in ShapeSlacks, kc \in {5, 6}, nd \in {5, 6} :
        /\ np + pmr > 0 /\ np + bor > 0 /\ np + kr > 0
        /\ pairlist \in PairLists(np)
        /\ beamprm = None
        /\ waferts = WaferTs(np)
        /\ point_matrix = Arr([p \in 1..(np + pmr) |->
                                Arr([t \in 1..(2 + pmc) |-> ((p + t) % 3) - 1])])
        /\ beam_orientation = Arr([p \in 1..(np + bor) |->
                                    Arr([t \in 1..(2 + boc) |-> "a"])])
        /\ intensity_derivatives = SubSeq(SkyDerivatives, 1, nd)
        /\ diffbeam_kernels =
              <<Arr([p \in 1..(np + kr) |->
                      SubSeq(Kernel(1, 2, 3, 4, 5, 6), 1, kc)])>>
        /\ out = None
        /\ dcall = None
        /\ dpc = "pointed"

InitD == CrosstalkIdle /\ KernelIdle /\ InitDiffbeam /\ FitIdle /\ GainIdle
NextD ==
    \/ GetKernelCoefficients \/ GetOrientation
    \/ DiffbeamMap2tod \/ WafertsAddDiffbeam
SpecDiffbeam == InitD /\ [][NextD]_vars

\* Callers with arrays of any lengths and shapes.
InitS ==
    \/ InitCrosstalk(ShapeSlacks) /\ KernelIdle /\ DiffbeamIdle /\ FitIdle /\ GainIdle
    \/ CrosstalkIdle /\ KernelIdle /\ InitShapes /\ FitIdle /\ GainIdle
NextS == Next \/ DiffbeamMap2tod
SpecShapes == InitS /\ [][NextS]_vars

\* Kernel fits: derivs and split_deriv on a sum map and a difference map.
InitF == CrosstalkIdle /\ KernelIdle /\ DiffbeamIdle /\ InitFit /\ GainIdle
NextF == Derivs \/ SplitDeriv
SpecFit == InitF /\ [][NextF]_vars

\* Gain functions and generators.
InitG == CrosstalkIdle /\ KernelIdle /\ DiffbeamIdle /\ FitIdle /\ InitGain
NextG == StepFunction \/ LinearFunction \/ MakeGen \/ NextGains
SpecGain == InitG /\ [][NextG]_vars

\* ====================================================== crosstalk claims

LastCall == call[1]
Called == pc \in {"done", "repeated"} /\ LastCall.status = "ok"
NBolo == Len(tod)
ZeroRow == [t \in DOMAIN tod[1] |-> Zero]

RECURSIVE VSumSeq(_, _)
VSumSeq(rows, zero) ==
    IF rows = <<>> THEN zero ELSE VAdd(Head(rows), VSumSeq(Tail(rows), zero))

\* orig[i] + sum over the neighbours j of i in its SQUID of
\* cross_amp[j] / |channel(i) - channel(j)|^beta * orig[j]
InsideFromSnapshot(orig, amp, radius, beta) ==
    [i \in 1..NBolo |->
        VAdd(orig[i],
             VSumSeq([j \in 1..NBolo |->
                        LET sep == Abs(bolo_ids[i] - bolo_ids[j])
                        IN  IF squid_ids[j] = squid_ids[i] /\ sep > 0 /\ sep <= radius
                            THEN VScale(RDiv(amp[j], Int2R(IPow(sep, beta))), orig[j])
                            ELSE ZeroRow],
                     ZeroRow))]

\* orig[i] + sum over the detectors j of the other SQUIDs of
\* cross_amp[j] / squid_attenuation * orig[j]
SquidToSquidFromSnapshot(orig, amp, squid_attenuation) ==
    [i \in 1..NBolo |->
        VAdd(orig[i],
             VSumSeq([j \in 1..NBolo |->
                        IF squid_ids[j] # squid_ids[i]
                        THEN VScale(RDiv(amp[j], Int2R(squid_attenuation)), orig[j])
                        ELSE ZeroRow],
                     ZeroRow))]

\* C1: after inject_crosstalk_inside_SQUID, every output timestream is the
\* original one plus the weighted originals of its neighbours in the SQUID:
\* no term uses a timestream the call has already modified.
C1_InsideUsesSnapshot ==
    (Called /\ LastCall.fn = "inside") =>
        LastCall.tsout = InsideFromSnapshot(LastCall.input, LastCall.cross_amp,
                                            LastCall.args[1], LastCall.args[2])

\* C2: after inject_crosstalk_SQUID_to_SQUID, every output timestream is the
\* original one plus cross_amp[j] / squid_attenuation * orig[j] over all
\* detectors j of the other SQUIDs, every orig[j] read from the input.
C2_SquidToSquidUsesSnapshot ==
    (Called /\ LastCall.fn = "squid_to_squid") =>
        LastCall.tsout = SquidToSquidFromSnapshot(LastCall.input, LastCall.cross_amp,
                                                  LastCall.args[1])

\* The amplitudes as a function of seed, mu, sigma and N alone.
AmplitudesOf(seed, m, s, n) ==
    [k \in 1..n |-> RAdd(<<m, 100>>, RMul(<<s, 100>>, StdNormal(seed, k)))]

\* C3: the cross-amplitudes of a call are Normal(mu/100, sigma/100) drawn
\* once, N values from the start of the stream of the given seed, whatever
\* the model, its parameters, the layout and the timestreams; and a call
\* repeated with the same arguments on the same input gives the same output.
C3_Deterministic ==
    /\ Called =>
          /\ LastCall.cross_amp = AmplitudesOf(cfg.seed, cfg.mu, cfg.sigma, NBolo)
          /\ state = <<[seed |-> cfg.seed, pos |-> NBolo]>>
    /\ (pc = "repeated" /\ LastCall.status = "ok") =>
          /\ prev[1].cross_amp = LastCall.cross_amp
          /\ prev[1].tsout = LastCall.tsout

\* A repeated call on at least two detectors whose amplitudes differ and
\* whose output differs from its input.
C3_Witness ==
    /\ pc = "repeated" /\ LastCall.status = "ok"
    /\ NBolo >= 2
    /\ LastCall.cross_amp[1] # LastCall.cross_amp[2]
    /\ LastCall.tsout # LastCall.input
    /\ prev[1].keep # LastCall.keep

\* C4: with new_array given, the call leaves bolo_data as it was and
\* new_array holds the modified timestreams; with new_array None, bolo_data
\* holds them; and both modes write the same values.
C4_OutputBuffer ==
    /\ (Called /\ LastCall.keep) =>
          /\ bolo_data = LastCall.input
          /\ new_array = <<LastCall.tsout>>
    /\ (Called /\ ~LastCall.keep) =>
          /\ bolo_data = LastCall.tsout
          /\ new_array = None
    /\ (pc = "repeated" /\ LastCall.status = "ok") =>
          prev[1].written = LastCall.written

\* A call into new_array repeated in place (and one the other way round
\* exists too), with timestreams that the call changed.
C4_Witness ==
    /\ pc = "repeated" /\ LastCall.status = "ok"
    /\ prev[1].keep /\ ~LastCall.keep
    /\ prev[1].fn = "inside"
    /\ bolo_data # LastCall.input

\* C13: inject_crosstalk_inside_SQUID leaves unchanged every detector whose
\* SQUID holds no detector at a channel separation between 1 and radius
\* (itself and detectors on its own channel are at separation 0): with
\* radius = 0, or with one detector per SQUID, every timestream is
\* unchanged.
C13_InsideNoOp ==
    (Called /\ LastCall.fn = "inside") =>
        LET radius == LastCall.args[1]
            alone(i) ==
                \A j \in 1..NBolo :
                    squid_ids[j] = squid_ids[i] =>
                        LET sep == Abs(bolo_ids[i] - bolo_ids[j])
                        IN  sep = 0 \/ sep > radius
        IN  /\ \A i \in 1..NBolo :
                  alone(i) => /\ LastCall.tsout[i] = LastCall.input[i]
                              /\ LastCall.written[i] = LastCall.input[i]
            /\ (radius = 0
                 \/ \A i, j \in 1..NBolo : i # j => squid_ids[i] # squid_ids[j]) =>
                    LastCall.written = LastCall.input

\* Two detectors of one SQUID on different channels, coupled with
\* radius = 0 and amplitudes that are not zero: nothing has changed.
C13_Witness ==
    /\ Called /\ LastCall.fn = "inside"
    /\ NBolo = 2
    /\ squid_ids = <<"A", "A">>
    /\ bolo_ids[1] # bolo_ids[2]
    /\ LastCall.args[1] = 0
    /\ LastCall.cross_amp[1] # Zero /\ LastCall.cross_amp[2] # Zero
    /\ LastCall.written = LastCall.input

\* C14: inject_crosstalk_SQUID_to_SQUID never adds to a detector the
\* timestream of a detector of its own SQUID, itself included; with a
\* single SQUID every timestream is unchanged.
C14_SquidToSquidExcludesOwnSquid ==
    (Called /\ LastCall.fn = "squid_to_squid") =>
        LET visits == SquidToSquidVisits(squid_ids, bolo_ids, NBolo)
        IN  /\ \A k \in DOMAIN visits :
                  squid_ids[visits[k][1]] # squid_ids[visits[k][2]]
            /\ \A i \in 1..NBolo :
                  (\A j \in 1..NBolo : squid_ids[j] = squid_ids[i]) =>
                      /\ LastCall.tsout[i] = LastCall.input[i]
                      /\ LastCall.written[i] = LastCall.input[i]

\* Two detectors in a single SQUID, amplitudes that are not zero: nothing
\* has changed.
C14_Witness ==
    /\ Called /\ LastCall.fn = "squid_to_squid"
    /\ NBolo = 2
    /\ squid_ids = <<"A", "A">>
    /\ LastCall.cross_amp[1] # Zero /\ LastCall.cross_amp[2] # Zero
    /\ LastCall.written = LastCall.input

\* ====================================================== kernel claims

KAdd(u, v) == [k \in 1..6 |-> RAdd(u[k], v[k])]
Selected(spin) == spin \in DOMAIN parts

\* C9: the kernels fixspin selects for spins '0', '1' and '2' add up to K,
\* coefficient by coefficient, and to fixspin(K, '012'); a spin string that
\* selects no spin gives the zero kernel.
C9_SpinAdditivity ==
    /\ (Selected(<<"0">>) /\ Selected(<<"1">>) /\ Selected(<<"2">>)) =>
          /\ KAdd(KAdd(parts[<<"0">>], parts[<<"1">>]), parts[<<"2">>]) = K
          /\ Selected(<<"0", "1", "2">>) =>
                parts[<<"0", "1", "2">>] =
                    KAdd(KAdd(parts[<<"0">>], parts[<<"1">>]), parts[<<"2">>])
    /\ Selected(<<"0", "1", "2">>) => parts[<<"0", "1", "2">>] = K
    /\ Selected(<<>>) => parts[<<>>] = ZeroKernel
    /\ Selected(<<"3">>) => parts[<<"3">>] = ZeroKernel

\* All four selections made on a kernel whose second-order coefficients
\* differ, so that each spin part is a different, non-zero kernel.
C9_Witness ==
    /\ K = Kernel(1, 2, 3, 4, 5, 6)
    /\ Selected(<<"0">>) /\ Selected(<<"1">>) /\ Selected(<<"2">>)
    /\ Selected(<<"0", "1", "2">>) /\ Selected(<<>>)
    /\ parts[<<"0">>] = <<One, Zero, Zero, Zero, <<11, 2>>, <<11, 2>>>>
    /\ parts[<<"1">>] = Kernel(0, 2, 3, 0, 0, 0)
    /\ parts[<<"2">>] = <<Zero, Zero, Zero, Int2R(4), <<-1, 2>>, <<1, 2>>>>

\* C10: rotating by theta and then by -theta gives the kernel back, and so
\* does rotating by 0.
C10_RotationRoundTrip ==
    /\ (Len(hist) = 2 /\ hist[1][1] = "rotate_deriv" /\ hist[2][1] = "rotate_deriv"
        /\ hist[2][2] = NegAngle(hist[1][2])) => work = K
    /\ (Len(hist) = 1 /\ hist[1] = <<"rotate_deriv", "0">>) => work = K

\* A kernel rotated by the 3-4-5 angle, where every coefficient but d00
\* changes, and rotated back.
C10_Witness ==
    /\ K = Kernel(1, 2, 3, 4, 5, 6)
    /\ hist = <<<<"rotate_deriv", "a">>, <<"rotate_deriv", "-a">>>>
    /\ work = K
    /\ rotate_deriv(K, "a")[4] # K[4] /\ rotate_deriv(K, "a")[2] # K[2]

\* The operation at position i of the caller's history.
IsRotation(i) == hist[i][1] = "rotate_deriv"
IsSelection(i) == hist[i][1] = "fixspin"

\* C22: spin selection commutes with rotation: for every kernel K, spin
\* subset s and angle theta, fixspin(rotate_deriv(K, theta), s) equals
\* rotate_deriv(fixspin(K, s), theta); the spin-0 part (d00 and the trace
\* (d20 + d02) / 2) is unchanged by any rotation; and fixspin is a
\* projection: fixspin(fixspin(K, s), s) = fixspin(K, s).
C22_SpinCommutesWithRotation ==
    (hist # None) =>
        /\ (Len(hist) = 2 /\ IsRotation(1) /\ IsSelection(2)) =>
              work = rotate_deriv(fixspin(K, hist[2][2]), hist[1][2])
        /\ (Len(hist) = 2 /\ IsSelection(1) /\ IsRotation(2)) =>
              work = fixspin(rotate_deriv(K, hist[2][2]), hist[1][2])
        /\ (Len(hist) = 1 /\ IsRotation(1)) =>
              /\ work[1] = K[1]
              /\ RMul(RAdd(work[5], work[6]), Half) =
                     RMul(RAdd(K[5], K[6]), Half)
              /\ fixspin(work, <<"0">>) = fixspin(K, <<"0">>)
        /\ (Len(hist) = 2 /\ IsSelection(1) /\ IsSelection(2)
            /\ hist[1][2] = hist[2][2]) =>
              work = fixspin(K, hist[1][2])

\* A kernel with six different coefficients turned by the 3-4-5 angle and
\* then reduced to its spin-2 part: the rotation moved the second-order
\* coefficients and the selection dropped the others.
C22_Witness ==
    /\ hist = <<<<"rotate_deriv", "a">>, <<"fixspin", <<"2">>>>>>
    /\ K = Kernel(1, 2, 3, 4, 5, 6)
    /\ work # fixspin(K, <<"2">>)
    /\ work # rotate_deriv(K, "a")
    /\ work # ZeroKernel

\* ====================================================== projection claims

LastProjection == dcall[1]
Projected(fn) == dpc = "done" /\ LastProjection.fn = fn
NPair == Len(pairlist)
Fitted == diffbeam_kernels[1]

\* The leakage of one sample: the kernel rotated by minus the orientation,
\* times the six maps at the pixel.
SampleLeak(kernel, theta, pixel) ==
    Dot(rotate_deriv(kernel, NegAngle(theta)),
        Arr([k \in 1..6 |-> intensity_derivatives[k][pixel + 1]]))

\* C6: when construct_beammap gives (None, None) for a pair,
\* get_kernel_coefficients records None for that pair and a fitted kernel
\* for the others, and the projection given that array completes without
\* raising, leaves the two timestreams of that pair as they were and
\* still injects the leakage of the other pairs.
C6_AbsentKernelIsZeroLeakage ==
    /\ dpc \notin {"idle", "start"} => dpc \in {"fitted", "pointed", "done"}
    /\ dpc \in {"fitted", "pointed", "done"} =>
          \A p \in 1..NPair :
              (Fitted[p] = None) <=> (beamprm[pairlist[p]] = <<None, None>>)
    /\ (dpc = "done" /\ \E p \in 1..NPair : Fitted[p] = None) =>
          /\ LastProjection.status = "ok"
          /\ Projected("waferts_add_diffbeam") =>
                \A p \in 1..NPair :
                    LET t1 == 2 * p - 1
                        t2 == 2 * p
                        leak == LastProjection.diffbeamleak[1][p]
                    IN  IF Fitted[p] = None
                        THEN /\ waferts[t1] = LastProjection.before[t1]
                             /\ waferts[t2] = LastProjection.before[t2]
                        ELSE /\ waferts[t1] = VAdd(LastProjection.before[t1], leak)
                             /\ waferts[t2] = VSub(LastProjection.before[t2], leak)
          /\ Projected("diffbeam_map2tod") =>
                \A p \in 1..NPair :
                    Fitted[p] = None => out[1][p] = LastProjection.before[p]

\* C7: after diffbeam_map2tod, every sample of every pair with a pixel
\* holds what it held plus the sum over the six maps of the pair's kernel,
\* rotated by minus the sample's orientation, times the map at the pixel;
\* every sample without a pixel (-1) holds what it held, and the call did
\* not raise on it.
C7_ProjectionPerSample ==
    (Projected("diffbeam_map2tod") /\ \A p \in 1..NPair : Fitted[p] # None) =>
        /\ LastProjection.status = "ok"
        /\ \A p \in 1..NPair : \A t \in DOMAIN point_matrix[p] :
              out[1][p][t] =
                  IF point_matrix[p][t] # -1
                  THEN RAdd(LastProjection.before[p][t],
                            SampleLeak(Fitted[p], beam_orientation[p][t],
                                       point_matrix[p][t]))
                  ELSE LastProjection.before[p][t]

\* Two pairs projected into a buffer that held a signal: the first with all
\* six terms, turned by the 3-4-5 angle, one sample seeing a pixel (and
\* changed) and one seeing none; the second with other pointing.
C7_Witness ==
    /\ Projected("diffbeam_map2tod")
    /\ LastProjection.status = "ok"
    /\ NPair = 2
    /\ Fitted[1] = Kernel(1, 2, 3, 4, 5, 6)
    /\ Fitted[2] = Kernel(0, 2, -3, 0, 0, 0)
    /\ point_matrix = <<<<-1, 1>>, <<0, 1>>>>
    /\ beam_orientation[1] = <<"a", "-a">>
    /\ LastProjection.before[1] = <<Int2R(1), Half>>
    /\ out[1][1][1] = Int2R(1)
    /\ out[1][1][2] # Half
    /\ out[1][2] # LastProjection.before[2]
    /\ out[1][2] # out[1][1]

\* C8: waferts_add_diffbeam adds the leakage of pair p to one detector of
\* pairlist[p] and subtracts it from the other, for any pairlist: the sum
\* of the two timestreams of every listed pair is what it was and their
\* difference has moved by twice the leakage.
C8_PairsOfPairlist ==
    (Projected("waferts_add_diffbeam") /\ LastProjection.status = "ok") =>
        \A p \in 1..NPair :
            LET ct == pairlist[p][1] + 1
                cb == pairlist[p][2] + 1
                was == LastProjection.before
                leak == LastProjection.diffbeamleak[1][p]
                twice == VScale(Two, leak)
            IN  /\ VAdd(waferts[ct], waferts[cb]) = VAdd(was[ct], was[cb])
                /\ \/ VSub(waferts[ct], waferts[cb])
                        = VAdd(VSub(was[ct], was[cb]), twice)
                   \/ VSub(waferts[ct], waferts[cb])
                        = VSub(VSub(was[ct], was[cb]), twice)

\* ------------------------------------------------------ kernel preparation

\* The fitted kernel with the temperature coefficient zeroed and the sign
\* of the coefficients of odd order in theta (indices 1 and 3) flipped.
Prepared(kernel) ==
    <<Zero, RNeg(kernel[2]), kernel[3], RNeg(kernel[4]), kernel[5], kernel[6]>>

\* The fitted kernels with other temperature coefficients, and the stack
\* with another intensity map.
OtherTemperature(kernels) ==
    Arr([p \in DOMAIN kernels |->
        [kernels[p] EXCEPT ![1] = RAdd(@, Int2R(p))]])
OtherIntensity(dI) ==
    [dI EXCEPT ![1] = Arr([x \in DOMAIN dI[1] |-> RAdd(dI[1][x], Int2R(3 * x))])]

\* C19: the kernel waferts_add_diffbeam hands to the projector for a pair is
\* fixspin(K', spins), K' being the fitted kernel with coefficient 0 set to
\* 0 and the sign flipped on indices 1 and 3 only; so the injected leakage
\* depends neither on the fitted temperature coefficient nor on the
\* intensity map (stack entry 0).
C19_KernelPreparation ==
    (Projected("waferts_add_diffbeam") /\ LastProjection.status = "ok") =>
        LET a == LastProjection.args
            leak == LastProjection.diffbeamleak[1]
        IN  /\ \A p \in 1..NPair : \A t \in DOMAIN point_matrix[p] :
                  leak[p][t] =
                      IF point_matrix[p][t] # -1
                      THEN SampleLeak(
                               fixspin(Prepared(a.diffbeam_kernels[p]),
                                       LastProjection.spins),
                               beam_orientation[p][t], point_matrix[p][t])
                      ELSE Zero
            /\ waferts_add_diffbeam(
                   LastProjection.before, a.point_matrix, a.beam_orientation,
                   a.intensity_derivatives,
                   OtherTemperature(a.diffbeam_kernels), pairlist,
                   LastProjection.spins).waferts = waferts
            /\ waferts_add_diffbeam(
                   LastProjection.before, a.point_matrix, a.beam_orientation,
                   OtherIntensity(a.intensity_derivatives),
                   a.diffbeam_kernels, pairlist,
                   LastProjection.spins).waferts = waferts

\* A fitted kernel with a temperature coefficient and all five derivative
\* coefficients, projected with every spin and a sample that sees a pixel:
\* the timestreams moved.
C19_Witness ==
    /\ Projected("waferts_add_diffbeam")
    /\ LastProjection.status = "ok"
    /\ LastProjection.spins = <<"0", "1", "2">>
    /\ LastProjection.args.diffbeam_kernels[1] = Kernel(1, 2, 3, 4, 5, 6)
    /\ point_matrix[1] = <<0, 1>>
    /\ beam_orientation[1] = <<"a", "-a">>
    /\ LastProjection.diffbeamleak[1][1][1] # Zero
    /\ waferts # LastProjection.before

\* C20: kernels are never mutated by their consumers: after
\* diffbeam_map2tod or waferts_add_diffbeam (and the rotate_deriv and
\* fixspin they call) return, the caller's diffbeam_kernels hold the values
\* they held before the call, and intensity_derivatives, point_matrix and
\* beam_orientation likewise; only waferts, respectively out, is modified.
C20_KernelsNotMutated ==
    /\ dpc = "done" =>
          /\ diffbeam_kernels = <<LastProjection.args.diffbeam_kernels>>
          /\ intensity_derivatives = LastProjection.args.intensity_derivatives
          /\ point_matrix = LastProjection.args.point_matrix
          /\ beam_orientation = LastProjection.args.beam_orientation
    /\ Projected("waferts_add_diffbeam") => out = None
    /\ Projected("diffbeam_map2tod") => waferts = WaferTs(NPair)

\* waferts_add_diffbeam on a kernel that its preparation changes (a
\* temperature coefficient to zero, a dI/dtheta coefficient to flip), with
\* leakage injected.
C20_Witness ==
    /\ Projected("waferts_add_diffbeam")
    /\ LastProjection.status = "ok"
    /\ LastProjection.spins = <<"1">>
    /\ Fitted[1] = Kernel(1, 2, 3, 4, 5, 6)
    /\ ZeroAndFlip(Fitted) # Fitted
    /\ waferts # LastProjection.before

\* ------------------------------------------------------ tensor rotation

\* R = [[cos t, -sin t], [sin t, cos t]]
RotationMatrix(theta) ==
    <<<<Cos(theta), RNeg(Sin(theta))>>, <<Sin(theta), Cos(theta)>>>>

\* products of 2x2 matrices and of a 2x2 matrix with a 2-vector
MatMul(A, B) ==
    [i \in 1..2 |-> [j \in 1..2 |->
        RAdd(RMul(A[i][1], B[1][j]), RMul(A[i][2], B[2][j]))]]
MatVec(A, v) ==
    [i \in 1..2 |-> RAdd(RMul(A[i][1], v[1]), RMul(A[i][2], v[2]))]
Transposed(A) == [i \in 1..2 |-> [j \in 1..2 |-> A[j][i]]]

\* The kernel whose scalar, vector and symmetric tensor parts are those of
\* Kin turned by R: d00, R v, R T R^T.
TensorRotation(Kin, theta) ==
    LET R == RotationMatrix(theta)
        v == MatVec(R, <<Kin[2], Kin[3]>>)
        T == MatMul(MatMul(R, <<<<Kin[5], Kin[4]>>, <<Kin[4], Kin[6]>>>>),
                    Transposed(R))
    IN  <<Kin[1], v[1], v[2], T[1][2], T[1][1], T[2][2]>>

\* C17: rotate_deriv is the tensor rotation by R = [[cos t, -sin t],
\* [sin t, cos t]]: d00 is unchanged, (d10, d01) becomes R (d10, d01) and
\* [[d20, d11], [d11, d02]] becomes R T R^T, in the order (e00, e10, e01,
\* e11, e20, e02); for an array theta of n angles the result holds, at each
\* index k, the scalar rotation by theta[k].
C17_TensorRotation ==
    /\ (hist # None /\ Len(hist) = 1 /\ hist[1][1] = "rotate_deriv") =>
          work = TensorRotation(K, hist[1][2])
    /\ (RK # None) =>
          /\ Len(RK.es) = 6
          /\ \A coeff \in 1..6 :
                /\ DOMAIN RK.es[coeff] = DOMAIN RK.theta
                /\ \A k \in DOMAIN RK.theta :
                      /\ RK.es[coeff][k] = rotate_deriv(K, RK.theta[k])[coeff]
                      /\ RK.es[coeff][k] =
                            TensorRotation(K, RK.theta[k])[coeff]

\* A kernel with six different coefficients turned by two different angles,
\* neither a multiple of a quarter turn.
C17_Witness ==
    /\ RK # None
    /\ K = Kernel(1, 2, 3, 4, 5, 6)
    /\ RK.theta = <<"a", "-a">>
    /\ RK.es[2] # <<K[2], K[2]>>
    /\ RK.es[4][1] # RK.es[4][2]

\* ====================================================== kernel-fit claims

\* (m[i][j-1] - m[i][j+1]) / (2 pix_size), values outside the grid being 0
XDifference(m, pix_size) ==
    Arr([i \in DOMAIN m |-> Arr([j \in DOMAIN m[1] |->
        RDiv(RSub(At(m, i, j - 1), At(m, i, j + 1)), RMul(Two, pix_size))])])

\* (m[i-1][j] - m[i+1][j]) / (2 pix_size), values outside the grid being 0
YDifference(m, pix_size) ==
    Arr([i \in DOMAIN m |-> Arr([j \in DOMAIN m[1] |->
        RDiv(RSub(At(m, i - 1, j), At(m, i + 1, j)), RMul(Two, pix_size))])])

MapTranspose(m) ==
    Arr([j \in DOMAIN m[1] |-> Arr([i \in DOMAIN m |-> m[i][j]])])

\* C18: xderiv(m)[i][j] = (m[i][j-1] - m[i][j+1]) / (2 pix_size), the
\* negative of the raw centred difference, with the map taken as 0 outside
\* the grid; yderiv is the same along the other axis, that is
\* transpose(xderiv(transpose(m))); every output has the shape of the input;
\* derivs returns (m, xderiv(m), yderiv(m), yderiv(xderiv(m)),
\* xderiv(xderiv(m)), yderiv(yderiv(m))) in this order.
C18_DerivativeOperator ==
    (fit # None /\ fit.derivs # None) =>
        LET m == fit.summap
            p == fit.pix_size
            d == fit.derivs[1]
        IN  /\ Len(d) = 6
            /\ \A k \in 1..6 : Shape(d[k]) = Shape(m)
            /\ d[1] = m
            /\ d[2] = XDifference(m, p)
            /\ d[3] = YDifference(m, p)
            /\ d[3] = MapTranspose(XDifference(MapTranspose(m), p))
            /\ d[4] = YDifference(XDifference(m, p), p)
            /\ d[5] = XDifference(XDifference(m, p), p)
            /\ d[6] = YDifference(YDifference(m, p), p)
            /\ xderiv(m, p) = d[2]
            /\ yderiv(m, p) = MapTranspose(xderiv(MapTranspose(m), p))
            /\ d = <<m, xderiv(m, p), yderiv(m, p), yderiv(xderiv(m, p), p),
                     xderiv(xderiv(m, p), p), yderiv(yderiv(m, p), p)>>

\* The derivatives of the 2 x 3 map 1 2 3 / 4 5 6 with pix_size 1/2: at the
\* left edge the x-derivative is (0 - 2) / 1, at the top edge the
\* y-derivative is (0 - 4) / 1, and the two mixed orders differ.
C18_Witness ==
    /\ fit # None
    /\ fit.derivs # None
    /\ fit.pix_size = Half
    /\ fit.summap = <<<<Int2R(1), Int2R(2), Int2R(3)>>,
                      <<Int2R(4), Int2R(5), Int2R(6)>>>>
    /\ fit.derivs[1][2][1][1] = Int2R(-2)
    /\ fit.derivs[1][3][1][1] = Int2R(-4)
    /\ fit.derivs[1][5] # fit.derivs[1][6]

\* C11: split_deriv on two identical maps (sumbeam = diffbeam, pixel for
\* pixel) returns six zeros.
C11_IdenticalMapsGiveZeros ==
    (fit # None /\ fit.K # None /\ fit.summap = fit.diffmap) =>
        fit.K[1] = ZeroKernel

\* C12: when the difference beam is zero at every pixel, split_deriv
\* returns six zeros whatever the sum beam is, also when the derivatives
\* of the sum beam are linearly dependent; so does get_kernel_coefficients
\* for such a pair.
C12_ZeroDifferenceGivesZeros ==
    /\ (fit # None /\ fit.K # None /\ fit.diffmap = ZeroMap(fit.summap)) =>
          fit.K[1] = ZeroKernel
    /\ (fit # None /\ fit.K # None /\ fit.diffmap = ZeroMap(fit.summap)) =>
          LET pairs == <<<<0, 1>>>>
              bm == [pr \in {pairs[1]} |-> <<fit.summap, fit.diffmap>>]
              r == get_kernel_coefficients(bm, pairs, fit.pix_size, "object")
          IN  r.status = "ok" /\ r.out = <<<<ZeroKernel>>>>

\* A zero difference fitted on the 3 x 3 bright pixel, whose second
\* derivatives are multiples of the map itself.
C12_Witness ==
    /\ fit # None /\ fit.K # None
    /\ Len(fit.summap) = 3
    /\ fit.summap[2][2] = One /\ fit.summap[1][1] = Zero
    /\ fit.diffmap = ZeroMap(fit.summap)
    /\ fit.K[1] = ZeroKernel

GainArrays ==
    {gains[k] : k \in DOMAIN gains} \cup {yielded[k] : k \in DOMAIN yielded}

\* C16: with sign = 'opposite' the gain of detector 1 is 2 minus the gain
\* of detector 0 at every sample, for step_function, linear_function and
\* every array their generators yield, for every nbreaks >= 1; with
\* sign = 'same' the two detectors of every pair have the same gains.
C16_DifferentialGain ==
    gcfg # None =>
        \A g \in GainArrays :
            /\ gcfg.sign = "opposite" =>
                  \A t \in DOMAIN g[1] : g[2][t] = RSub(Two, g[1][t])
            /\ gcfg.sign = "same" =>
                  \A k \in 1..(Len(g) \div 2) : g[2 * k - 1] = g[2 * k]

\* Rows 2k and 2k+1 (counted from 0) of a materialised gains array.
PairRows(g, k) == <<g[2 * k + 1], g[2 * k + 2]>>

\* C21: for the same seed, mean, std, nbreaks, sign and nsamples, the k-th
\* array yielded by step_function_gen (resp. linear_function_gen) equals
\* rows 2k and 2k+1 of step_function(nbolos, ...) (resp. linear_function),
\* for every k < nbolos / 2 and every nbreaks >= 1; and an array obtained
\* from an earlier next() still holds that pair's gains after later next()
\* calls.
C21_GeneratorIsLazyForm ==
    (gcfg # None /\ gains # None) =>
        \A k \in DOMAIN yielded :
            /\ k - 1 < gcfg.nbolos \div 2 =>
                  yielded[k] = PairRows(gains[1], k - 1)
            /\ held[k] = yielded[k]

\* ====================================================== shape claims

\* C5: the injectors reject id lists that are shorter or longer than
\* bolo_data, and diffbeam_map2tod rejects pointing, orientation, kernels
\* or maps whose shapes disagree, in both cases by failing before any
\* buffer has changed.
C5_MismatchRejected ==
    /\ (pc \in {"done", "repeated"}
          /\ (Len(squid_ids) # NBolo \/ Len(bolo_ids) # NBolo)) =>
            /\ LastCall.status # "ok"
            /\ bolo_data = tod
            /\ new_array # None => new_array[1] = ZerosLike(tod)
    /\ (Projected("diffbeam_map2tod")
          /\ \/ Shape(point_matrix) # Shape(LastProjection.before)
             \/ Shape(beam_orientation) # Shape(LastProjection.before)
             \/ Len(Fitted) # Len(LastProjection.before)
             \/ Len(intensity_derivatives) # Len(Fitted[1])) =>
            /\ LastProjection.status # "ok"
            /\ out[1] = LastProjection.before

====
